---- MODULE Spec2Model ----
(***************************************************************************)
(* Execution dispatcher, dynamic workflow compiler and eager bridge of     *)
(* flytekit.core.python_function_task (PythonFunctionTask and its async /  *)
(* eager subclasses).                                                      *)
(*                                                                         *)
(* One task entity (self) is constructed and then dispatched in the        *)
(* context that is current on the FlyteContextManager stack.  The wrapped  *)
(* callable is user code: what it returns, raises or calls is chosen       *)
(* nondeterministically.  Operations that run the callable inside a        *)
(* `with FlyteContextManager.with_context(...)` block take several steps:   *)
(* the entry (frame pushed), the calls the body makes while it is traced,  *)
(* and the exit (frame popped, result computed).                           *)
(***************************************************************************)
EXTENDS Integers, Sequences, FiniteSets, TLC

\* ------------------------------------------------------------------ bounds
MaxOut == 2      \* declared outputs of the task interface: 0..MaxOut
MaxNodes == 3    \* entity calls traced in one dynamic body: 0..MaxNodes
MaxSyncCalls == 3   \* top_level_sync calls made in one thread: 0..MaxSyncCalls

\* ------------------------------------------------------- values and inputs
Vals == {"a", "b"}
Kwargs == {"x3", "x5"}

SeqUpTo(S, n) == UNION {[1..k -> S] : k \in 0..n}

\* Native values a wrapped callable can hand back.
NoneValue == [kind |-> "None", items |-> <<>>]
VoidPromiseValue == [kind |-> "VoidPromise", items |-> <<>>]
Scalar(v) == [kind |-> "scalar", items |-> <<v>>]
Tuple(s) == [kind |-> "tuple", items |-> s]

NativeOutputs ==
    {NoneValue, VoidPromiseValue}
        \cup {Scalar(v) : v \in Vals}
        \cup {Tuple(s) : s \in SeqUpTo(Vals, MaxOut + 1)}

\* ---------------------------------------------------------------- entities
ExecutionBehavior == {"DEFAULT", "DYNAMIC", "EAGER"}

Classes == {"PythonFunctionTask", "AsyncPythonFunctionTask", "EagerAsyncPythonFunctionTask"}

NoTask ==
    [cls |-> "none", execution_mode |-> "DEFAULT", node_dependency_hints |-> FALSE,
     nOut |-> 0, output_tuple_name |-> FALSE, wf |-> 0, wfBuilt |-> 0,
     wfBuiltBy |-> "", metadata_cache |-> FALSE]

\* ----------------------------------------------------------------- context
Modes ==
    {"TASK_EXECUTION", "LOCAL_WORKFLOW_EXECUTION", "LOCAL_TASK_EXECUTION",
     "DYNAMIC_TASK_EXECUTION", "EAGER_EXECUTION", "EAGER_LOCAL_EXECUTION"}

LocalModes == {"LOCAL_TASK_EXECUTION", "LOCAL_WORKFLOW_EXECUTION", "EAGER_LOCAL_EXECUTION"}

NoES == [mode |-> "NoES", working_dir |-> ""]
NoCS == [present |-> FALSE, prefix |-> <<>>]

HasES(ctx) == ctx.execution_state # NoES

is_local_execution(es) == es.mode \in LocalModes

\* ExecutionState.with_params(mode=...): a copy with the mode replaced.
es_with_params(es, mode) == [es EXCEPT !.mode = mode]

\* FlyteContext.new_execution_state(): a default execution state, mode unset,
\* with a working directory of its own.
new_execution_state(ctx) == [mode |-> "unset", working_dir |-> "sandbox"]

\* FlyteContext.new_compilation_state(prefix)
new_compilation_state(ctx, prefix) == [present |-> TRUE, prefix |-> <<prefix>>]

\* CompilationState.with_params(prefix=...): a copy with the prefix replaced.
cs_with_params(cs, prefix) == [cs EXCEPT !.prefix = <<prefix>>]

with_execution_state(ctx, es) == [ctx EXCEPT !.execution_state = es]
with_compilation_state(ctx, cs) == [ctx EXCEPT !.compilation_state = cs]
with_worker_queue(ctx, wq) == [ctx EXCEPT !.worker_queue = wq]

\* Frames a caller can have made current before it calls the task; a worker
\* queue is made from a remote client, so a frame has no queue without one.
AmbientFrames ==
    {f \in [execution_state : {NoES} \cup {[mode |-> m, working_dir |-> "wd"] : m \in Modes},
            compilation_state : {NoCS, [present |-> TRUE, prefix |-> <<"d">>]},
            flyte_client : BOOLEAN,
            worker_queue : {0, 1}] :
        f.worker_queue # 0 => f.flyte_client}

VARIABLES self, ctxStack, calls, last

\* The calling thread of flytekit.utils.async_utils: its event loop, the
\* open top_level_sync calls and the most recent finished one.
VARIABLES thread, syncCalls, syncLast

syncVars == <<thread, syncCalls, syncLast>>

vars == <<self, ctxStack, calls, last, thread, syncCalls, syncLast>>

\* asyncio.get_running_loop(): the loop running in the thread, if any.
NoLoop == [kind |-> "none", id |-> 0]
\* A loop the caller is already running in (the caller is a coroutine).
AmbientLoop == [kind |-> "ambient", id |-> 0]
\* The n-th loop made by asyncio.run in this thread.
RunLoop(n) == [kind |-> "run", id |-> n]

ThreadInit == [running |-> NoLoop, created |-> 0, done |-> 0]

NoSyncLast ==
    [op |-> "none", via |-> "", args |-> "", loopBefore |-> NoLoop, loopAfter |-> NoLoop,
     status |-> "", exc |-> "", result |-> "", coroCreated |-> FALSE, ranOn |-> NoLoop,
     body |-> "", bodyRet |-> "", nested |-> FALSE]

current_context == ctxStack[Len(ctxStack)]

\* ----------------------------------------------------------------- results
TaskName == "my_task"

OutputNames == <<"o0", "o1", "o2", "o3", "o4">>

\* list(self.python_interface.outputs.keys())
expected_output_names(task) == SubSeq(OutputNames, 1, task.nOut)

EmptyResult ==
    [kind |-> "None", native |-> NoneValue, name |-> "", literals |-> <<>>,
     min_successes |-> 0, tasks |-> <<>>, nodes |-> <<>>, outputs |-> <<>>,
     subworkflows |-> <<>>]

\* A Python function that ends without a return statement yields None.
ImplicitNone == EmptyResult
NativeResult(fo) ==
    IF fo = NoneValue THEN ImplicitNone
    ELSE [EmptyResult EXCEPT !.kind = "native", !.native = fo]
VoidPromise(name) == [EmptyResult EXCEPT !.kind = "VoidPromise", !.name = name]
LiteralMap(literals) == [EmptyResult EXCEPT !.kind = "LiteralMap", !.literals = literals]
DynamicJobSpec(min_successes, tasks, nodes, outputs, subworkflows) ==
    [EmptyResult EXCEPT !.kind = "DynamicJobSpec", !.min_successes = min_successes,
                        !.tasks = tasks, !.nodes = nodes, !.outputs = outputs,
                        !.subworkflows = subworkflows]

\* How a call ends; translated: translate_inputs_to_literals was reached.
Returned(r) == [status |-> "returned", exc |-> "", result |-> r, translated |-> FALSE]
Raised(e) == [status |-> "raised", exc |-> e, result |-> EmptyResult, translated |-> FALSE]

\* ---------------------------------------------------------------- dispatch
\* execute with the DEFAULT tag sent through dynamic_execute as well.
execute_branch_always_dynamic(task) ==
    IF task.execution_mode \in {"DEFAULT", "DYNAMIC"} THEN "dynamic_execute"
    ELSE "fallthrough"

\* PythonFunctionTask.execute
execute_branch(task) ==
    IF task.execution_mode = "DEFAULT" THEN "task_function"
    ELSE IF task.execution_mode = "DYNAMIC" THEN "dynamic_execute"
    ELSE "fallthrough"

\* dynamic_execute compiling whenever there is an execution state that is
\* not LOCAL_TASK_EXECUTION, local or not.
dynamic_execute_branch_compiles_locally(ctx) ==
    IF HasES(ctx) /\ ctx.execution_state.mode = "LOCAL_TASK_EXECUTION"
        THEN "wf_execute"
    ELSE IF HasES(ctx) THEN "compile_into_workflow"
    ELSE "ValueError"

\* dynamic_execute with the TASK_EXECUTION and LOCAL_TASK_EXECUTION tests
\* exchanged.
dynamic_execute_branch_calls_in_task_execution(ctx) ==
    IF HasES(ctx) /\ is_local_execution(ctx.execution_state) THEN "wf_execute"
    ELSE IF HasES(ctx) /\ ctx.execution_state.mode = "LOCAL_TASK_EXECUTION"
        THEN "compile_into_workflow"
    ELSE IF HasES(ctx) /\ ctx.execution_state.mode = "TASK_EXECUTION"
        THEN "task_function"
    ELSE "ValueError"

\* PythonFunctionTask.dynamic_execute: which of its four exits is taken.
dynamic_execute_branch(ctx) ==
    IF HasES(ctx) /\ is_local_execution(ctx.execution_state) THEN "wf_execute"
    ELSE IF HasES(ctx) /\ ctx.execution_state.mode = "TASK_EXECUTION"
        THEN "compile_into_workflow"
    ELSE IF HasES(ctx) /\ ctx.execution_state.mode = "LOCAL_TASK_EXECUTION"
        THEN "task_function"
    ELSE "ValueError"

\* AsyncPythonFunctionTask.async_execute
async_execute_branch(task) ==
    IF task.execution_mode = "DEFAULT" THEN "task_function"
    ELSE IF task.execution_mode = "DYNAMIC" THEN "NotImplementedError"
    ELSE "fallthrough"

\* run_with_backend going on without a remote client.
run_with_backend_branch_no_client_check(ctx) == "eager_backend"

\* EagerAsyncPythonFunctionTask.run_with_backend: the remote-client check.
run_with_backend_branch(ctx) ==
    IF ~ctx.flyte_client THEN "AssertionError" ELSE "eager_backend"

\* EagerAsyncPythonFunctionTask.async_execute
eager_async_execute_branch(ctx) ==
    IF ~HasES(ctx) THEN "AttributeError"
    ELSE IF ~is_local_execution(ctx.execution_state) THEN "run_with_backend"
    ELSE "eager_local"

\* The functions execute() goes through for an entity in a context, and the
\* exit it ends in.
Dispatch(task, ctx) ==
    IF task.cls = "PythonFunctionTask" THEN
        IF execute_branch(task) = "dynamic_execute"
            THEN [path |-> <<"execute", "dynamic_execute">>,
                  leaf |-> dynamic_execute_branch(ctx)]
            ELSE [path |-> <<"execute">>, leaf |-> execute_branch(task)]
    ELSE IF task.cls = "AsyncPythonFunctionTask" THEN
        [path |-> <<"async_execute">>, leaf |-> async_execute_branch(task)]
    ELSE
        IF eager_async_execute_branch(ctx) = "run_with_backend"
            THEN [path |-> <<"eager_async_execute", "run_with_backend">>,
                  leaf |-> run_with_backend_branch(ctx)]
            ELSE [path |-> <<"eager_async_execute">>,
                  leaf |-> eager_async_execute_branch(ctx)]

ScopedLeaves == {"wf_execute", "compile_into_workflow", "eager_local", "eager_backend"}

\* FlyteContextManager.current_context() is called by dynamic_execute and by
\* the eager async_execute, and by nothing else on the way.
ConsultsContext(path) ==
    \E i \in 1..Len(path) : path[i] \in {"dynamic_execute", "eager_async_execute"}

\* ------------------------------------------------------------------ frames
\* dynamic_execute, local branch: the frame the workflow body is executed in.
dynamic_local_frame(task, ctx) ==
    LET es == IF task.execution_mode = "DYNAMIC"
                THEN es_with_params(new_execution_state(ctx), "DYNAMIC_TASK_EXECUTION")
                ELSE ctx.execution_state
    IN  with_execution_state(ctx, es)

\* compile_into_workflow pushing the compilation state only, whatever the tag.
compile_frame_keeps_execution_state(task, ctx) ==
    LET cs == IF ~ctx.compilation_state.present
                THEN new_compilation_state(ctx, "d")
                ELSE cs_with_params(ctx.compilation_state, "d")
    IN  with_compilation_state(ctx, cs)

\* compile_into_workflow: the frame the body is traced and serialized in.
compile_frame(task, ctx) ==
    LET cs == IF ~ctx.compilation_state.present
                THEN new_compilation_state(ctx, "d")
                ELSE cs_with_params(ctx.compilation_state, "d")
        updated_ctx == with_compilation_state(ctx, cs)
    IN  IF task.execution_mode = "DYNAMIC"
            THEN with_execution_state(
                     updated_ctx,
                     es_with_params(new_execution_state(ctx), "DYNAMIC_TASK_EXECUTION"))
            ELSE updated_ctx

\* EagerAsyncPythonFunctionTask.local_execution_mode
local_execution_mode == "EAGER_LOCAL_EXECUTION"

\* The local branch starting from a new execution state, as dynamic_execute
\* does.
eager_local_frame_fresh_state(ctx) ==
    with_execution_state(
        ctx, es_with_params(new_execution_state(ctx), local_execution_mode))

\* Eager async_execute, local branch.
eager_local_frame(ctx) ==
    with_execution_state(ctx, es_with_params(ctx.execution_state, local_execution_mode))

\* WorkerQueue(remote): a queue object that did not exist before.
NewWorkerQueue == 2

\* run_with_backend making a new worker queue whether or not one is there.
eager_backend_frame_always_new_queue(ctx) ==
    with_worker_queue(
        with_execution_state(ctx, es_with_params(ctx.execution_state, "EAGER_EXECUTION")),
        NewWorkerQueue)

\* run_with_backend: the frame the eager body runs in.
eager_backend_frame(ctx) ==
    LET builder == with_execution_state(
                       ctx, es_with_params(ctx.execution_state, "EAGER_EXECUTION"))
    IN  IF ctx.worker_queue = 0
            THEN with_worker_queue(builder, NewWorkerQueue)
            ELSE builder

ScopedFrame(task, leaf, ctx) ==
    CASE leaf = "wf_execute" -> dynamic_local_frame(task, ctx)
      [] leaf = "compile_into_workflow" -> compile_frame(task, ctx)
      [] leaf = "eager_local" -> eager_local_frame(ctx)
      [] leaf = "eager_backend" -> eager_backend_frame(ctx)

\* _create_and_cache_dynamic_workflow building a new workflow object on
\* every call.
create_and_cache_dynamic_workflow_uncached(task) ==
    [task EXCEPT !.wf = task.wfBuilt + 1, !.wfBuilt = task.wfBuilt + 1]

\* _create_and_cache_dynamic_workflow: build the workflow object on first use.
create_and_cache_dynamic_workflow(task) ==
    IF task.wf = 0
        THEN [task EXCEPT !.wf = task.wfBuilt + 1, !.wfBuilt = task.wfBuilt + 1]
        ELSE task

\* self._create_and_cache_dynamic_workflow() as called from `caller`: the
\* entity remembers which caller's call built the workflow object.
materialize(task, caller) ==
    [create_and_cache_dynamic_workflow(task)
        EXCEPT !.wfBuiltBy = IF task.wf = 0 THEN caller ELSE @]

\* ------------------------------------------- dynamic_execute, local outputs
\* The type engine's native -> literal conversion of one value.
to_literal(x) == [literal |-> x]

\* translate_inputs_to_literals: every entry of the map, converted.
translate_inputs_to_literals(m) == [n \in DOMAIN m |-> to_literal(m[n])]

\* wf_outputs_as_map taking the first element of every tuple result of a
\* single-output interface, whether or not the interface has a tuple name.
wf_outputs_as_map_always_unpacks(task, function_outputs) ==
    LET names == expected_output_names(task)
        fo == function_outputs
    IN  IF Len(names) = 1 THEN
            IF fo.kind = "tuple" THEN
                IF Len(fo.items) = 0
                    THEN [exc |-> "IndexError", map |-> <<>>]
                    ELSE [exc |-> "", map |-> (names[1] :> Scalar(fo.items[1]))]
            ELSE [exc |-> "", map |-> (names[1] :> fo)]
        ELSE IF fo.kind # "tuple" THEN [exc |-> "TypeError", map |-> <<>>]
        ELSE IF Len(fo.items) > Len(names) THEN [exc |-> "IndexError", map |-> <<>>]
        ELSE [exc |-> "",
              map |-> [n \in {names[i] : i \in 1..Len(fo.items)} |->
                          Scalar(fo.items[CHOOSE i \in 1..Len(fo.items) : names[i] = n])]]

\* wf_outputs_as_map of dynamic_execute; scalars are not iterable.
wf_outputs_as_map(task, function_outputs) ==
    LET names == expected_output_names(task)
        fo == function_outputs
    IN  IF Len(names) = 1 THEN
            IF task.output_tuple_name /\ fo.kind = "tuple" THEN
                IF Len(fo.items) = 0
                    THEN [exc |-> "IndexError", map |-> <<>>]
                    ELSE [exc |-> "", map |-> (names[1] :> Scalar(fo.items[1]))]
            ELSE [exc |-> "", map |-> (names[1] :> fo)]
        ELSE IF fo.kind # "tuple" THEN [exc |-> "TypeError", map |-> <<>>]
        ELSE IF Len(fo.items) > Len(names) THEN [exc |-> "IndexError", map |-> <<>>]
        ELSE [exc |-> "",
              map |-> [n \in {names[i] : i \in 1..Len(fo.items)} |->
                          Scalar(fo.items[CHOOSE i \in 1..Len(fo.items) : names[i] = n])]]

\* The local branch without its void test: an empty result is translated
\* like any other.
dynamic_execute_outputs_no_void_test(task, function_outputs) ==
    IF function_outputs.kind \in {"VoidPromise", "None"}
        THEN [Returned(LiteralMap(translate_inputs_to_literals(<<>>)))
                 EXCEPT !.translated = TRUE]
    ELSE IF task.nOut = 0 THEN Raised("FlyteValueException")
    ELSE LET m == wf_outputs_as_map(task, function_outputs)
         IN  IF m.exc # "" THEN Raised(m.exc)
             ELSE [Returned(LiteralMap(translate_inputs_to_literals(m.map)))
                      EXCEPT !.translated = TRUE]

\* The local branch without the test of the declared output count.
dynamic_execute_outputs_no_arity_check(task, function_outputs) ==
    IF function_outputs.kind \in {"VoidPromise", "None"}
        THEN Returned(VoidPromise(TaskName))
    ELSE LET m == wf_outputs_as_map(task, function_outputs)
         IN  IF m.exc # "" THEN Raised(m.exc)
             ELSE [Returned(LiteralMap(translate_inputs_to_literals(m.map)))
                      EXCEPT !.translated = TRUE]

\* dynamic_execute, local branch, after the workflow body returned.
dynamic_execute_outputs(task, function_outputs) ==
    IF function_outputs.kind \in {"VoidPromise", "None"}
        THEN Returned(VoidPromise(TaskName))
    ELSE IF task.nOut = 0 THEN Raised("FlyteValueException")
    ELSE LET m == wf_outputs_as_map(task, function_outputs)
         IN  IF m.exc # "" THEN Raised(m.exc)
             ELSE [Returned(LiteralMap(translate_inputs_to_literals(m.map)))
                      EXCEPT !.translated = TRUE]

\* ------------------------------------------------ compile_into_workflow
\* Entities a dynamic body can call while it is traced.
SubEntities == {"inc", "dbl", "ref", "lp", "subwf"}

EntityKind(e) ==
    CASE e \in {"inc", "dbl"} -> "Task"
      [] e = "ref" -> "ReferenceTask"
      [] e = "lp" -> "LaunchPlan"
      [] OTHER -> "Workflow"

\* isinstance(entity, Task): a reference task is a task too.
IsTask(kind) == kind \in {"Task", "ReferenceTask"}

\* What the serializer stores for an entity.
SerializedModel(e) ==
    CASE EntityKind(e) = "Task" -> [type |-> "TaskSpec", template |-> <<"template", e>>]
      [] EntityKind(e) = "ReferenceTask" -> [type |-> "ReferenceSpec", template |-> <<>>]
      [] EntityKind(e) = "LaunchPlan" -> [type |-> "LaunchPlanSpec", template |-> <<>>]
      [] OTHER -> [type |-> "WorkflowSpec", template |-> <<>>]

RECURSIVE Dedup(_)
Dedup(s) ==
    IF s = <<>> THEN <<>>
    ELSE LET rest == Dedup(SubSeq(s, 1, Len(s) - 1))
             x == s[Len(s)]
         IN  IF \E i \in 1..Len(rest) : rest[i] = x THEN rest ELSE Append(rest, x)

\* get_serializable(model_entities, settings, wf) for a body that made the
\* calls of `trace` in order and, when it made none, returned `consts`:
\* the workflow spec, and the registry the serializer filled (each entity
\* once, in the order first met, the workflow itself last).
get_serializable(task, cs, trace, consts) ==
    LET names == expected_output_names(task)
        called == Dedup(trace)
    IN  [workflow_spec |->
            [nodes |-> [i \in 1..Len(trace) |->
                           [id |-> <<cs.prefix, i>>, entity |-> trace[i]]],
             outputs |-> [i \in 1..Len(names) |->
                           [var |-> names[i],
                            binding |-> IF trace = <<>>
                                          THEN [promise |-> FALSE, scalar |-> consts[i]]
                                          ELSE [promise |-> TRUE, scalar |-> "none"]]],
             sub_workflows |-> SelectSeq(called, LAMBDA e : EntityKind(e) = "Workflow")],
         model_entities |->
            [i \in 1..Len(called) |->
                [entity |-> called[i], kind |-> EntityKind(called[i]),
                 model |-> SerializedModel(called[i])]]
            \o <<[entity |-> "self_wf", kind |-> "Workflow",
                  model |-> [type |-> "WorkflowSpec", template |-> <<>>]]>>]

\* BindingData.to_literal_model
to_literal_model(binding) == [literal |-> Scalar(binding.scalar)]

\* The loop keeping a template for every registry entry, task or not.
RECURSIVE gather_task_templates_unfiltered(_, _)
gather_task_templates_unfiltered(model_entities, tts) ==
    IF model_entities = <<>> THEN [exc |-> "", tts |-> tts]
    ELSE LET entry == Head(model_entities)
         IN  IF entry.kind = "ReferenceTask"
                 THEN [exc |-> "ValueError", tts |-> tts]
             ELSE gather_task_templates_unfiltered(
                      Tail(model_entities), Append(tts, entry.model.template))

\* The loop passing over reference tasks as it passes over launch plans.
RECURSIVE gather_task_templates_skips_reference(_, _)
gather_task_templates_skips_reference(model_entities, tts) ==
    IF model_entities = <<>> THEN [exc |-> "", tts |-> tts]
    ELSE LET entry == Head(model_entities)
         IN  IF (~IsTask(entry.kind) /\ entry.kind # "TaskSpec") \/ entry.kind = "ReferenceTask"
                 THEN gather_task_templates_skips_reference(Tail(model_entities), tts)
             ELSE IF entry.model.type # "TaskSpec"
                 THEN [exc |-> "TypeError", tts |-> tts]
             ELSE gather_task_templates_skips_reference(
                      Tail(model_entities), Append(tts, entry.model.template))

\* The loop over model_entities.items(): the templates gathered, or the
\* error the first offending entry raises.
RECURSIVE gather_task_templates(_, _)
gather_task_templates(model_entities, tts) ==
    IF model_entities = <<>> THEN [exc |-> "", tts |-> tts]
    ELSE LET entry == Head(model_entities)
         IN  IF ~IsTask(entry.kind) /\ entry.kind # "TaskSpec"
                 THEN gather_task_templates(Tail(model_entities), tts)
             ELSE IF entry.kind = "ReferenceTask"
                 THEN [exc |-> "ValueError", tts |-> tts]
             ELSE IF entry.model.type # "TaskSpec"
                 THEN [exc |-> "TypeError", tts |-> tts]
             ELSE gather_task_templates(Tail(model_entities),
                                        Append(tts, entry.model.template))

\* compile_into_workflow without the zero-node short cut.
compile_result_no_short_circuit(workflow_spec, model_entities) ==
    LET g == gather_task_templates(model_entities, <<>>)
    IN  IF g.exc # "" THEN Raised(g.exc)
        ELSE Returned(DynamicJobSpec(Len(workflow_spec.nodes), g.tts,
                                     workflow_spec.nodes, workflow_spec.outputs,
                                     workflow_spec.sub_workflows))

\* compile_into_workflow counting the gathered templates, not the nodes.
compile_result_counts_templates(workflow_spec, model_entities) ==
    IF Len(workflow_spec.nodes) = 0 THEN
        Returned(LiteralMap(
            [v \in {workflow_spec.outputs[i].var : i \in DOMAIN workflow_spec.outputs} |->
                to_literal_model(
                    workflow_spec.outputs[
                        CHOOSE i \in DOMAIN workflow_spec.outputs :
                            workflow_spec.outputs[i].var = v].binding)]))
    ELSE LET g == gather_task_templates(model_entities, <<>>)
         IN  IF g.exc # "" THEN Raised(g.exc)
             ELSE Returned(DynamicJobSpec(Len(g.tts), g.tts,
                                          workflow_spec.nodes, workflow_spec.outputs,
                                          workflow_spec.sub_workflows))

\* compile_into_workflow handing the nodes on in the opposite order.
compile_result_reverses_nodes(workflow_spec, model_entities) ==
    LET n == Len(workflow_spec.nodes)
        g == gather_task_templates(model_entities, <<>>)
    IN  IF n = 0 THEN
            Returned(LiteralMap(
                [v \in {workflow_spec.outputs[i].var : i \in DOMAIN workflow_spec.outputs} |->
                    to_literal_model(
                        workflow_spec.outputs[
                            CHOOSE i \in DOMAIN workflow_spec.outputs :
                                workflow_spec.outputs[i].var = v].binding)]))
        ELSE IF g.exc # "" THEN Raised(g.exc)
        ELSE Returned(DynamicJobSpec(n, g.tts,
                                     [i \in 1..n |-> workflow_spec.nodes[n + 1 - i]],
                                     workflow_spec.outputs, workflow_spec.sub_workflows))

\* compile_into_workflow after get_serializable returned.
compile_result(workflow_spec, model_entities) ==
    IF Len(workflow_spec.nodes) = 0 THEN
        Returned(LiteralMap(
            [v \in {workflow_spec.outputs[i].var : i \in DOMAIN workflow_spec.outputs} |->
                to_literal_model(
                    workflow_spec.outputs[
                        CHOOSE i \in DOMAIN workflow_spec.outputs :
                            /\ workflow_spec.outputs[i].var = v
                            /\ \A j \in DOMAIN workflow_spec.outputs :
                                   workflow_spec.outputs[j].var = v => j <= i].binding)]))
    ELSE LET g == gather_task_templates(model_entities, <<>>)
         IN  IF g.exc # "" THEN Raised(g.exc)
             ELSE Returned(DynamicJobSpec(Len(workflow_spec.nodes), g.tts,
                                          workflow_spec.nodes, workflow_spec.outputs,
                                          workflow_spec.sub_workflows))

\* The list tts as compile_into_workflow leaves it: empty when the zero-node
\* return comes before the loop.
tts_gathered(workflow_spec, model_entities) ==
    IF Len(workflow_spec.nodes) = 0 THEN <<>>
    ELSE gather_task_templates(model_entities, <<>>).tts

\* ------------------------------------------------------------ construction
\* The built entity, given the tag __init__ stores.
NewTask(a, execution_mode) ==
    [cls |-> a.cls, execution_mode |-> execution_mode,
     node_dependency_hints |-> a.node_dependency_hints,
     nOut |-> a.nOut, output_tuple_name |-> a.output_tuple_name,
     wf |-> 0, wfBuilt |-> 0, wfBuiltBy |-> "", metadata_cache |-> a.metadata_cache]

\* __init__ with the eager constructor passing the caller's execution_mode
\* keyword on instead of EAGER.
PythonFunctionTask_init_eager_keeps_keyword(a) ==
    IF a.task_function_none THEN [exc |-> "ValueError", task |-> NoTask]
    ELSE IF /\ a.default_resolver
            /\ ~a.istestfunction
            /\ a.isnested
            /\ ~a.is_functools_wrapped_module_level
        THEN [exc |-> "ValueError", task |-> NoTask]
    ELSE IF a.node_dependency_hints /\ a.execution_mode # "DYNAMIC"
        THEN [exc |-> "ValueError", task |-> NoTask]
    ELSE [exc |-> "", task |-> NewTask(a, a.execution_mode)]

\* __init__ without the test for nested functions.
PythonFunctionTask_init_no_nested_check(a) ==
    LET execution_mode == IF a.cls = "EagerAsyncPythonFunctionTask"
                            THEN "EAGER" ELSE a.execution_mode
    IN  IF a.task_function_none THEN [exc |-> "ValueError", task |-> NoTask]
        ELSE IF a.node_dependency_hints /\ execution_mode # "DYNAMIC"
            THEN [exc |-> "ValueError", task |-> NoTask]
        ELSE [exc |-> "", task |-> NewTask(a, execution_mode)]

\* __init__ without the test of node_dependency_hints against the tag.
PythonFunctionTask_init_no_hints_check(a) ==
    LET execution_mode == IF a.cls = "EagerAsyncPythonFunctionTask"
                            THEN "EAGER" ELSE a.execution_mode
    IN  IF a.task_function_none THEN [exc |-> "ValueError", task |-> NoTask]
        ELSE IF /\ a.default_resolver
                /\ ~a.istestfunction
                /\ a.isnested
                /\ ~a.is_functools_wrapped_module_level
            THEN [exc |-> "ValueError", task |-> NoTask]
        ELSE [exc |-> "", task |-> NewTask(a, execution_mode)]

\* PythonFunctionTask.__init__ (EagerAsyncPythonFunctionTask.__init__ drops
\* an execution_mode keyword and passes EAGER): the error raised, or the
\* entity built.
PythonFunctionTask_init(a) ==
    LET execution_mode == IF a.cls = "EagerAsyncPythonFunctionTask"
                            THEN "EAGER" ELSE a.execution_mode
    IN  IF a.task_function_none THEN [exc |-> "ValueError", task |-> NoTask]
        ELSE IF /\ a.default_resolver
                /\ ~a.istestfunction
                /\ a.isnested
                /\ ~a.is_functools_wrapped_module_level
            THEN [exc |-> "ValueError", task |-> NoTask]
        ELSE IF a.node_dependency_hints /\ execution_mode # "DYNAMIC"
            THEN [exc |-> "ValueError", task |-> NoTask]
        ELSE [exc |-> "", task |-> NewTask(a, execution_mode)]

InitArgs ==
    [cls : Classes, task_function_none : BOOLEAN, execution_mode : ExecutionBehavior,
     node_dependency_hints : BOOLEAN, default_resolver : BOOLEAN,
     istestfunction : BOOLEAN, isnested : BOOLEAN,
     is_functools_wrapped_module_level : BOOLEAN,
     nOut : 0..MaxOut, output_tuple_name : BOOLEAN, metadata_cache : BOOLEAN]

NoInitArgs ==
    [cls |-> "none", task_function_none |-> FALSE, execution_mode |-> "DEFAULT",
     node_dependency_hints |-> FALSE, default_resolver |-> FALSE,
     istestfunction |-> FALSE, isnested |-> FALSE,
     is_functools_wrapped_module_level |-> FALSE,
     nOut |-> 0, output_tuple_name |-> FALSE, metadata_cache |-> FALSE]

\* -------------------------------------------------------------------- state
DefaultFrame ==
    [execution_state |-> NoES, compilation_state |-> NoCS,
     flyte_client |-> FALSE, worker_queue |-> 0]

NoSpec == [nodes |-> <<>>, outputs |-> <<>>, sub_workflows |-> <<>>]

\* The record of the most recent finished call.
NoLast ==
    [op |-> "none", task |-> NoTask, path |-> <<>>, leaf |-> "", ctx |-> DefaultFrame,
     kwargs |-> "", status |-> "", exc |-> "", result |-> EmptyResult,
     translated |-> FALSE, inner |-> Raised(""), direct |-> 0, bodyRuns |-> 0,
     body |-> "", fnKwargs |-> "", fnRet |-> NoneValue, bodyFrame |-> DefaultFrame,
     workflow_spec |-> NoSpec, model_entities |-> <<>>, tts |-> <<>>,
     init |-> NoInitArgs, depth |-> 0, cache_enabled |-> FALSE, trace |-> <<>>]

\* execute() whose eager backend branch hands back nothing however
\* run_with_backend ended.
execute_returns_swallows_errors(leaf, inner) ==
    IF leaf = "eager_backend" THEN Returned(ImplicitNone) ELSE inner

\* What execute() hands to its caller when the function it ended in
\* (the wrapped callable, dynamic_execute's local branch,
\* compile_into_workflow, run_with_backend) ended with `inner`: every branch
\* returns the inner result, except the eager backend branch, which awaits
\* run_with_backend and returns nothing.
execute_returns(leaf, inner) ==
    IF leaf = "eager_backend" /\ inner.status = "returned"
        THEN Returned(ImplicitNone)
        ELSE inner

\* The record of a call that ended: `inner` is how the function it ended in
\* ended, status/exc/result are what the caller of the entry point gets.
Finished(base, inner) ==
    LET outcome == IF base.op \in {"execute", "local_execute"} THEN execute_returns(base.leaf, inner)
                   ELSE inner
    IN  [base EXCEPT !.status = outcome.status, !.exc = outcome.exc,
                     !.result = outcome.result, !.translated = inner.translated,
                     !.inner = inner]

Init ==
    /\ self = NoTask
    /\ ctxStack = <<DefaultFrame>>
    /\ calls = <<>>
    /\ last = NoLast
    /\ thread = ThreadInit
    /\ syncCalls = <<>>
    /\ syncLast = NoSyncLast

\* The task is built, once, at decoration time, with arguments a (a tuple
\* name is given for single-output interfaces and the metadata's cache flag
\* for eager tasks, where the code reads them).
Init_(a) ==
    /\ a.output_tuple_name => a.nOut = 1
    /\ a.metadata_cache => a.cls = "EagerAsyncPythonFunctionTask"
    /\ LET r == PythonFunctionTask_init(a)
       IN  /\ self' = r.task
           /\ last' = [NoLast EXCEPT !.op = "init", !.init = a, !.task = r.task,
                                     !.status = IF r.exc = "" THEN "returned" ELSE "raised",
                                     !.exc = r.exc]
    /\ UNCHANGED <<ctxStack, calls, syncVars>>

Construct ==
    /\ self = NoTask
    /\ last = NoLast
    /\ \E a \in InitArgs : Init_(a)

\* The caller makes a frame of its own current before it uses the task:
\* `with FlyteContextManager.with_context(f)`.
WithContext(f) ==
    /\ self # NoTask
    /\ last.op = "init"
    /\ ctxStack' = Append(ctxStack, f)
    /\ last' = NoLast
    /\ UNCHANGED <<self, calls, syncVars>>

\* ------------------------------------------------------------------ execute
Call(kwargs) ==
    LET d == Dispatch(self, current_context)
    IN  [NoLast EXCEPT !.op = "execute", !.task = self, !.path = d.path,
                       !.leaf = d.leaf, !.ctx = current_context, !.kwargs = kwargs,
                       !.depth = Len(ctxStack)]

\* execute() ends in a direct call of the wrapped callable, which returns.
ExecuteCallsFunction(kwargs, fo) ==
    /\ self # NoTask
    /\ calls = <<>>
    /\ Dispatch(self, current_context).leaf = "task_function"
    /\ last' = Finished([Call(kwargs) EXCEPT !.direct = 1, !.bodyRuns = 1,
                                            !.body = "returned",
                                            !.fnKwargs = kwargs, !.fnRet = fo,
                                            !.bodyFrame = current_context],
                        Returned(NativeResult(fo)))
    /\ UNCHANGED <<self, ctxStack, calls, syncVars>>

\* ... which raises.
ExecuteFunctionRaises(kwargs) ==
    /\ self # NoTask
    /\ calls = <<>>
    /\ Dispatch(self, current_context).leaf = "task_function"
    /\ last' = Finished([Call(kwargs) EXCEPT !.direct = 1, !.bodyRuns = 1,
                                            !.body = "raised",
                                            !.fnKwargs = kwargs,
                                            !.bodyFrame = current_context],
                        Raised("UserError"))
    /\ UNCHANGED <<self, ctxStack, calls, syncVars>>

\* execute() matches no branch and falls off its end.
ExecuteFallsThrough(kwargs) ==
    /\ self # NoTask
    /\ calls = <<>>
    /\ Dispatch(self, current_context).leaf = "fallthrough"
    /\ last' = Finished(Call(kwargs), Returned(ImplicitNone))
    /\ UNCHANGED <<self, ctxStack, calls, syncVars>>

\* execute() raises before any body runs.
ExecuteRaises(kwargs) ==
    /\ self # NoTask
    /\ calls = <<>>
    /\ Dispatch(self, current_context).leaf
           \in {"ValueError", "NotImplementedError", "AttributeError", "AssertionError"}
    /\ last' = Finished(Call(kwargs), Raised(Dispatch(self, current_context).leaf))
    /\ UNCHANGED <<self, ctxStack, calls, syncVars>>

\* execute() enters a `with FlyteContextManager.with_context(...)` block.
ExecuteEnters(kwargs) ==
    /\ self # NoTask
    /\ calls = <<>>
    /\ LET d == Dispatch(self, current_context)
       IN  /\ d.leaf \in ScopedLeaves
           /\ ctxStack' = Append(ctxStack, ScopedFrame(self, d.leaf, current_context))
           /\ calls' = Append(calls, [op |-> "execute", path |-> d.path,
                                      leaf |-> d.leaf, kwargs |-> kwargs,
                                      trace |-> <<>>, depth |-> Len(ctxStack)])
           /\ self' = IF d.leaf \in {"wf_execute", "compile_into_workflow"}
                        THEN materialize(self, d.leaf) ELSE self
    /\ last' = NoLast
    /\ UNCHANGED syncVars

\* EagerAsyncPythonFunctionTask.local_execute with the cache test left out.
local_execute_branch_ignores_cache(task, cache_enabled) == "execute"

\* EagerAsyncPythonFunctionTask.local_execute: the cache test on
\* self.metadata.cache and LocalConfig.auto().cache_enabled.
local_execute_branch(task, cache_enabled) ==
    IF task.metadata_cache /\ cache_enabled THEN "NotImplementedError" ELSE "execute"

\* The record of a call of local_execute(ctx, **kwargs), ctx being the
\* current context.
LocalCall(kwargs, cache_enabled) ==
    LET d == Dispatch(self, current_context)
        b == local_execute_branch(self, cache_enabled)
    IN  [Call(kwargs) EXCEPT
           !.op = "local_execute",
           !.path = IF b = "execute" THEN <<"local_execute">> \o d.path
                                     ELSE <<"local_execute">>,
           !.leaf = IF b = "execute" THEN d.leaf ELSE b,
           !.cache_enabled = cache_enabled]

\* local_execute raises: at its cache test, or in the execute() it calls
\* before any body runs.
LocalExecuteRaises(kwargs, cache_enabled) ==
    /\ self.cls = "EagerAsyncPythonFunctionTask"
    /\ calls = <<>>
    /\ LocalCall(kwargs, cache_enabled).leaf
           \in {"NotImplementedError", "AttributeError", "AssertionError"}
    /\ last' = Finished(LocalCall(kwargs, cache_enabled),
                        Raised(LocalCall(kwargs, cache_enabled).leaf))
    /\ UNCHANGED <<self, ctxStack, calls, syncVars>>

\* local_execute calls execute(), which enters its with block.
LocalExecuteEnters(kwargs, cache_enabled) ==
    /\ self.cls = "EagerAsyncPythonFunctionTask"
    /\ calls = <<>>
    /\ LET c == LocalCall(kwargs, cache_enabled)
       IN  /\ c.leaf \in ScopedLeaves
           /\ ctxStack' = Append(ctxStack, ScopedFrame(self, c.leaf, current_context))
           /\ calls' = Append(calls, [op |-> "local_execute", path |-> c.path,
                                      leaf |-> c.leaf, kwargs |-> kwargs,
                                      trace |-> <<>>, depth |-> Len(ctxStack)])
    /\ last' = NoLast
    /\ UNCHANGED <<self, syncVars>>

\* compile_into_workflow(ctx, task_function, **kwargs) called by itself on a
\* dynamic task, with the current context as ctx (the callers modelled are
\* local runs without a remote client): it enters its with block.
CompileEnters(kwargs) ==
    /\ self # NoTask
    /\ self.cls = "PythonFunctionTask"
    /\ self.execution_mode = "DYNAMIC"
    /\ HasES(current_context)
    /\ is_local_execution(current_context.execution_state)
    /\ ~current_context.flyte_client
    /\ calls = <<>>
    /\ ctxStack' = Append(ctxStack, compile_frame(self, current_context))
    /\ calls' = Append(calls, [op |-> "compile_into_workflow",
                               path |-> <<"compile_into_workflow">>,
                               leaf |-> "compile_into_workflow", kwargs |-> kwargs,
                               trace |-> <<>>, depth |-> Len(ctxStack)])
    /\ self' = materialize(self, "compile_into_workflow")
    /\ last' = NoLast
    /\ UNCHANGED syncVars

\* --------------------------------------------------------------------- exit
top_call == calls[Len(calls)]

\* The frame that was current when the innermost open call was made.
entry_context == ctxStack[Len(ctxStack) - 1]

\* Leaving a `with FlyteContextManager.with_context(...)` block.
pop_context(stack) == SubSeq(stack, 1, Len(stack) - 1)

Leaving ==
    [NoLast EXCEPT !.op = top_call.op, !.task = self, !.path = top_call.path,
                   !.leaf = top_call.leaf, !.ctx = entry_context,
                   !.kwargs = top_call.kwargs, !.bodyRuns = 1, !.body = "returned",
                   !.direct = IF top_call.leaf \in {"eager_local", "eager_backend"}
                                THEN 1 ELSE 0,
                   !.fnKwargs = top_call.kwargs, !.bodyFrame = current_context,
                   !.depth = top_call.depth]

Leave ==
    /\ ctxStack' = pop_context(ctxStack)
    /\ calls' = SubSeq(calls, 1, Len(calls) - 1)
    /\ UNCHANGED <<self, syncVars>>

\* An error that leaves the block with its frame still on the stack.
BodyRaises_leaks_frame ==
    /\ calls # <<>>
    /\ last' = Finished([Leaving EXCEPT !.body = "raised"], Raised("UserError"))
    /\ calls' = SubSeq(calls, 1, Len(calls) - 1)
    /\ UNCHANGED <<self, ctxStack, syncVars>>

\* The body of any open block raises; the error leaves the block.
BodyRaises ==
    /\ calls # <<>>
    /\ last' = Finished([Leaving EXCEPT !.body = "raised"], Raised("UserError"))
    /\ Leave

\* dynamic_execute, local branch: the workflow body returned function_outputs.
WfExecuteReturns(function_outputs) ==
    /\ calls # <<>>
    /\ top_call.leaf = "wf_execute"
    /\ last' = Finished([Leaving EXCEPT !.fnRet = function_outputs],
                        dynamic_execute_outputs(self, function_outputs))
    /\ Leave

\* compile_into_workflow: the body, being traced, calls entity e, which
\* adds a node instead of running.
TraceCall(e) ==
    /\ calls # <<>>
    /\ top_call.leaf = "compile_into_workflow"
    /\ Len(top_call.trace) < MaxNodes
    /\ calls' = [calls EXCEPT ![Len(calls)].trace = Append(@, e)]
    /\ UNCHANGED <<self, ctxStack, last, syncVars>>

\* compile_into_workflow: the traced body returned (consts, when it called
\* nothing) and was serialized.
CompileReturns(consts) ==
    /\ calls # <<>>
    /\ top_call.leaf = "compile_into_workflow"
    /\ top_call.trace # <<>> => \A i \in DOMAIN consts : consts[i] = "a"
    /\ LET s == get_serializable(self, current_context.compilation_state,
                                 top_call.trace, consts)
       IN  last' = Finished([Leaving EXCEPT !.trace = top_call.trace,
                                            !.workflow_spec = s.workflow_spec,
                                            !.model_entities = s.model_entities,
                                            !.tts = tts_gathered(s.workflow_spec,
                                                                 s.model_entities)],
                            compile_result(s.workflow_spec, s.model_entities))
    /\ Leave

\* Eager async_execute, local branch: the awaited callable returned.
EagerLocalReturns(fo) ==
    /\ calls # <<>>
    /\ top_call.leaf = "eager_local"
    /\ last' = Finished([Leaving EXCEPT !.fnRet = fo], Returned(NativeResult(fo)))
    /\ Leave

\* Eager async_execute, backend branch: the callable awaited by
\* run_with_backend returned.
EagerBackendReturns(fo) ==
    /\ calls # <<>>
    /\ top_call.leaf = "eager_backend"
    /\ last' = Finished([Leaving EXCEPT !.fnRet = fo], Returned(NativeResult(fo)))
    /\ Leave

Next ==
    \/ Construct
    \/ \E k \in Kwargs, fo \in NativeOutputs : ExecuteCallsFunction(k, fo)
    \/ \E k \in Kwargs : ExecuteFunctionRaises(k)
    \/ \E k \in Kwargs : ExecuteFallsThrough(k)
    \/ \E k \in Kwargs : ExecuteRaises(k)
    \/ \E k \in Kwargs : ExecuteEnters(k)
    \/ \E k \in Kwargs : CompileEnters(k)
    \/ \E k \in Kwargs, ce \in BOOLEAN : LocalExecuteRaises(k, ce)
    \/ \E k \in Kwargs, ce \in BOOLEAN : LocalExecuteEnters(k, ce)
    \/ \E f \in AmbientFrames : WithContext(f)
    \/ BodyRaises
    \/ \E fo \in NativeOutputs : WfExecuteReturns(fo)
    \/ \E e \in SubEntities : TraceCall(e)
    \/ \E consts \in [1..self.nOut -> Vals] : CompileReturns(consts)
    \/ \E fo \in NativeOutputs : EagerLocalReturns(fo)
    \/ \E fo \in NativeOutputs : EagerBackendReturns(fo)

Spec == Init /\ [][Next]_vars

\* ------------------------------------------------ async_utils: sync bridge
\* The async functions handed to top_level_sync, and how a call is made:
\* directly, or through the wrapper top_level_sync_wrapper(func) returns.
AsyncFuncs == {"async_execute", "coro_fn"}
SyncEntries == {"top_level_sync", "wrapper"}

\* ensure_no_loop(error_msg): AssertionError when get_running_loop() finds a
\* loop; the RuntimeError "no running event loop" is swallowed.  (CPython's
\* get_running_loop raises no other RuntimeError, so the re-raise branch is
\* not taken.)
ensure_no_loop(running) ==
    IF running # NoLoop THEN "AssertionError" ELSE ""

\* ensure_and_get_running_loop(): the running loop, or None (here NoLoop).
ensure_and_get_running_loop(running) == running

\* asyncio.run(coro) seen from the thread: it refuses to start under a
\* running loop, and otherwise makes the next new loop.
asyncio_run(t) ==
    IF t.running # NoLoop
    THEN [exc |-> "RuntimeError", loop |-> NoLoop]
    ELSE [exc |-> "", loop |-> RunLoop(t.created + 1)]

\* top_level_sync without its first statement.
top_level_sync_no_loop_check(t) ==
    LET r == asyncio_run(t)
    IN  [exc |-> r.exc, coroCreated |-> TRUE, loop |-> r.loop]

\* top_level_sync(func, *args, **kwargs) up to the start of the coroutine:
\* ensure_no_loop; coro = func(...); asyncio.run(coro).
top_level_sync(t) ==
    IF ensure_no_loop(t.running) # ""
    THEN [exc |-> ensure_no_loop(t.running), coroCreated |-> FALSE, loop |-> NoLoop]
    ELSE LET r == asyncio_run(t)
         IN  [exc |-> r.exc, coroCreated |-> TRUE, loop |-> r.loop]

\* The caller of the bridge: the thread itself, or the body of the coroutine
\* an open call is running.
SyncCaller == IF syncCalls = <<>> THEN "thread" ELSE "coroutine"

\* A call of top_level_sync that raises before any coroutine runs.
TopLevelSyncRaises(via, func, args) ==
    /\ thread.done < MaxSyncCalls
    /\ top_level_sync(thread).exc # ""
    /\ syncLast' = [NoSyncLast EXCEPT
                      !.op = "top_level_sync", !.via = via, !.args = args,
                      !.loopBefore = thread.running, !.loopAfter = thread.running,
                      !.status = "raised", !.exc = top_level_sync(thread).exc,
                      !.coroCreated = top_level_sync(thread).coroCreated,
                      !.nested = (SyncCaller = "coroutine")]
    /\ thread' = [thread EXCEPT !.done = @ + 1]
    /\ UNCHANGED <<syncCalls, self, ctxStack, calls, last>>

\* A call of top_level_sync that starts the coroutine on a new loop.
TopLevelSyncStarts(via, func, args) ==
    /\ thread.done < MaxSyncCalls
    /\ top_level_sync(thread).exc = ""
    /\ thread' = [running |-> top_level_sync(thread).loop,
                  created |-> thread.created + 1, done |-> thread.done + 1]
    /\ syncCalls' = Append(syncCalls,
                           [via |-> via, func |-> func, args |-> args,
                            loopBefore |-> thread.running,
                            loop |-> top_level_sync(thread).loop,
                            nested |-> (SyncCaller = "coroutine")])
    /\ syncLast' = NoSyncLast
    /\ UNCHANGED <<self, ctxStack, calls, last>>

\* asyncio.run ends: the loop is closed, the thread has no loop again, and
\* the coroutine's outcome is the outcome of top_level_sync.
SyncFinished(body, v) ==
    LET c == syncCalls[Len(syncCalls)]
    IN  [NoSyncLast EXCEPT
           !.op = "top_level_sync", !.via = c.via, !.args = c.args,
           !.loopBefore = c.loopBefore, !.loopAfter = NoLoop,
           !.status = body, !.exc = IF body = "raised" THEN v ELSE "",
           !.result = IF body = "returned" THEN v ELSE "",
           !.coroCreated = TRUE, !.ranOn = c.loop,
           !.body = body, !.bodyRet = v, !.nested = c.nested]

CoroutineReturns(v) ==
    /\ syncCalls # <<>>
    /\ syncLast' = SyncFinished("returned", v)
    /\ syncCalls' = SubSeq(syncCalls, 1, Len(syncCalls) - 1)
    /\ thread' = [thread EXCEPT !.running = NoLoop]
    /\ UNCHANGED <<self, ctxStack, calls, last>>

CoroutineRaises ==
    /\ syncCalls # <<>>
    /\ syncLast' = SyncFinished("raised", "UserError")
    /\ syncCalls' = SubSeq(syncCalls, 1, Len(syncCalls) - 1)
    /\ thread' = [thread EXCEPT !.running = NoLoop]
    /\ UNCHANGED <<self, ctxStack, calls, last>>

\* The thread's caller starts or stops being inside a loop of its own (the
\* caller is code running in a coroutine).
EnterLoop ==
    /\ syncCalls = <<>>
    /\ thread.running = NoLoop
    /\ thread' = [thread EXCEPT !.running = AmbientLoop]
    /\ syncLast' = NoSyncLast
    /\ UNCHANGED <<syncCalls, self, ctxStack, calls, last>>

ExitLoop ==
    /\ syncCalls = <<>>
    /\ thread.running = AmbientLoop
    /\ thread' = [thread EXCEPT !.running = NoLoop]
    /\ syncLast' = NoSyncLast
    /\ UNCHANGED <<syncCalls, self, ctxStack, calls, last>>

NextSync ==
    \/ \E via \in SyncEntries, f \in AsyncFuncs, k \in Kwargs : TopLevelSyncRaises(via, f, k)
    \/ \E via \in SyncEntries, f \in AsyncFuncs, k \in Kwargs : TopLevelSyncStarts(via, f, k)
    \/ \E v \in Vals : CoroutineReturns(v)
    \/ CoroutineRaises
    \/ EnterLoop
    \/ ExitLoop

SyncSpec == Init /\ [][NextSync]_vars

\* =================================================================== claims
InPath(path, f) == \E i \in 1..Len(path) : path[i] = f

\* A call of execute() that ended, on a PythonFunctionTask tagged DYNAMIC.
DynamicExecuteEnded == last.op = "execute" /\ InPath(last.path, "dynamic_execute")

\* A call that ended inside compile_into_workflow after the serializer ran.
CompileEnded ==
    /\ last.op \in {"execute", "compile_into_workflow"}
    /\ last.leaf = "compile_into_workflow"
    /\ last.body = "returned"

\* C1: a PythonFunctionTask tagged DEFAULT, in any context (with or without
\* an execution state), calls the wrapped callable directly, exactly once,
\* with the kwargs it got, hands back what the callable returned (or the
\* error it raised), opens no context block and never reads the context.
C1_DefaultCallsFunctionOnce ==
    /\ (self.cls = "PythonFunctionTask" /\ self.execution_mode = "DEFAULT")
          => calls = <<>>
    /\ (/\ last.op = "execute"
        /\ last.task.cls = "PythonFunctionTask"
        /\ last.task.execution_mode = "DEFAULT")
          => /\ last.leaf = "task_function"
             /\ last.direct = 1
             /\ last.bodyRuns = 1
             /\ last.fnKwargs = last.kwargs
             /\ ~ConsultsContext(last.path)
             /\ last.body = "returned"
                   => last.status = "returned" /\ last.result = NativeResult(last.fnRet)
             /\ last.body = "raised" => last.status = "raised"

C1_Witness ==
    /\ last.op = "execute"
    /\ last.task.cls = "PythonFunctionTask"
    /\ last.task.execution_mode = "DEFAULT"
    /\ last.ctx.execution_state = NoES
    /\ last.kwargs = "x3"
    /\ last.status = "returned"
    /\ last.result.kind = "native"
    /\ last.result.native = Tuple(<<"a", "b">>)

C3_TaskExecutionCompiles ==
    (/\ DynamicExecuteEnded
     /\ last.ctx.execution_state.mode = "TASK_EXECUTION"
     /\ ~is_local_execution(last.ctx.execution_state))
       => /\ last.leaf = "compile_into_workflow"
          /\ last.direct = 0
          /\ last.bodyFrame.compilation_state.present
          /\ last.bodyFrame.flyte_client = last.ctx.flyte_client
          /\ last.bodyFrame.worker_queue = last.ctx.worker_queue
          /\ last.status = last.inner.status
          /\ last.exc = last.inner.exc
          /\ last.result = last.inner.result
          /\ last.status = "returned"
                => last.result.kind \in {"DynamicJobSpec", "LiteralMap"}

C3_Witness ==
    /\ DynamicExecuteEnded
    /\ last.ctx.execution_state.mode = "TASK_EXECUTION"
    /\ last.status = "returned"
    /\ last.result.kind = "DynamicJobSpec"
    /\ last.result.min_successes = 2

\* C4 (as claimed): in the mode LOCAL_TASK_EXECUTION a DYNAMIC task's
\* execute() calls the wrapped callable directly and returns its raw
\* result, and neither builds nor executes the dynamic workflow.
C4_LocalTaskExecutionCallsDirectly ==
    (DynamicExecuteEnded /\ last.ctx.execution_state.mode = "LOCAL_TASK_EXECUTION")
       => /\ last.leaf = "task_function"
          /\ last.direct = 1
          /\ last.task.wf = 0
          /\ last.status = "returned" => last.result = NativeResult(last.fnRet)

\* No row of the dispatch table: a DYNAMIC task with no execution state or
\* in a mode that is neither local, TASK_EXECUTION nor LOCAL_TASK_EXECUTION,
\* and an EAGER one with no execution state (neither local nor non-local).
NoDispatchRow(task, ctx) ==
    \/ /\ task.execution_mode = "DYNAMIC"
       /\ \/ ~HasES(ctx)
          \/ /\ ~is_local_execution(ctx.execution_state)
             /\ ctx.execution_state.mode \notin {"TASK_EXECUTION", "LOCAL_TASK_EXECUTION"}
    \/ task.execution_mode = "EAGER" /\ ~HasES(ctx)

\* C5 (as claimed): every execute() call on a (tag, mode) pair without a
\* row in the dispatch table ends in a raised error, never in a returned
\* value, None included.
C5_NoRowRaises ==
    (last.op = "execute" /\ NoDispatchRow(last.task, last.ctx))
       => last.status = "raised"

\* C6: in the local branch of dynamic_execute, a workflow body that returns
\* None or a VoidPromise makes dynamic_execute return a VoidPromise named
\* after the task; no LiteralMap is built and the translation to literals
\* is not reached.
C6_VoidResultGivesVoidPromise ==
    (/\ DynamicExecuteEnded
     /\ last.leaf = "wf_execute"
     /\ last.body = "returned"
     /\ last.fnRet.kind \in {"None", "VoidPromise"})
       => /\ last.status = "returned"
          /\ last.result.kind = "VoidPromise"
          /\ last.result.name = TaskName
          /\ last.result.literals = <<>>
          /\ ~last.translated

C6_Witness ==
    /\ DynamicExecuteEnded
    /\ last.leaf = "wf_execute"
    /\ last.body = "returned"
    /\ last.fnRet = NoneValue
    /\ last.task.nOut = 0
    /\ last.result = VoidPromise(TaskName)

\* C7 (as claimed): in the local branch of dynamic_execute, with one or more
\* declared outputs, a body result of None or a VoidPromise ends in an error.
C7_VoidWithDeclaredOutputsRaises ==
    (/\ DynamicExecuteEnded
     /\ last.leaf = "wf_execute"
     /\ last.body = "returned"
     /\ last.task.nOut > 0
     /\ last.fnRet.kind \in {"None", "VoidPromise"})
       => last.status = "raised"

\* C8: a compile whose workflow spec has no nodes returns a LiteralMap, not
\* a DynamicJobSpec: its keys are the variables of the spec's output
\* bindings, which are the declared output names, each mapped to the literal
\* of its binding; no template is gathered and no check of the registry
\* raises.
C8_ZeroNodesGivesLiteralMap ==
    (CompileEnded /\ Len(last.workflow_spec.nodes) = 0)
       => /\ last.inner.status = "returned"
          /\ last.inner.result.kind = "LiteralMap"
          /\ last.inner.result.tasks = <<>>
          /\ DOMAIN last.inner.result.literals
                = {last.workflow_spec.outputs[i].var : i \in DOMAIN last.workflow_spec.outputs}
          /\ DOMAIN last.inner.result.literals
                = {OutputNames[i] : i \in 1..last.task.nOut}
          /\ Cardinality(DOMAIN last.inner.result.literals) = Len(last.workflow_spec.outputs)
          /\ \A i \in DOMAIN last.workflow_spec.outputs :
                last.inner.result.literals[last.workflow_spec.outputs[i].var]
                    = [literal |-> Scalar(last.workflow_spec.outputs[i].binding.scalar)]

C8_Witness ==
    /\ CompileEnded
    /\ Len(last.workflow_spec.nodes) = 0
    /\ last.task.nOut = 2
    /\ last.inner.result.kind = "LiteralMap"
    /\ last.inner.result.literals["o0"] = [literal |-> Scalar("a")]
    /\ last.inner.result.literals["o1"] = [literal |-> Scalar("b")]

\* C9: compile_into_workflow returns a DynamicJobSpec only for a spec with
\* one node or more; its min_successes is the number of nodes of the spec,
\* and its outputs and sub-workflows are those of the spec.
C9_JobSpecNeedsEveryNode ==
    (CompileEnded /\ last.inner.result.kind = "DynamicJobSpec")
       => /\ Len(last.workflow_spec.nodes) >= 1
          /\ last.inner.result.min_successes = Len(last.workflow_spec.nodes)
          /\ last.inner.result.min_successes >= 1
          /\ last.inner.result.outputs = last.workflow_spec.outputs
          /\ last.inner.result.subworkflows = last.workflow_spec.sub_workflows

C9_Witness ==
    /\ CompileEnded
    /\ last.inner.result.kind = "DynamicJobSpec"
    /\ last.inner.result.min_successes = 3
    /\ last.inner.result.subworkflows = <<"subwf">>
    /\ Len(last.inner.result.tasks) = 1

TaskKeyed(entry) == IsTask(entry.kind) \/ entry.kind = "TaskSpec"

NodesCalling(nodes, e) == Cardinality({i \in DOMAIN nodes : nodes[i].entity = e})

TemplatesOf(tasks, e) == Cardinality({i \in DOMAIN tasks : tasks[i] = <<"template", e>>})

\* C10: the task list of a returned DynamicJobSpec holds the template of
\* every registry entry keyed by a task, one each, in the registry's order,
\* and nothing for the launch plan and workflow entries; a task the body
\* called k >= 1 times gives k nodes and one template.
C10_TemplatesFollowRegistry ==
    (CompileEnded /\ last.inner.result.kind = "DynamicJobSpec")
       => LET keyed == SelectSeq(last.model_entities, TaskKeyed)
              tasks == last.inner.result.tasks
          IN  /\ Len(tasks) = Len(keyed)
              /\ \A i \in DOMAIN keyed : tasks[i] = <<"template", keyed[i].entity>>
              /\ \A e \in SubEntities :
                    /\ EntityKind(e) \in {"LaunchPlan", "Workflow"} => TemplatesOf(tasks, e) = 0
                    /\ (EntityKind(e) = "Task" /\ NodesCalling(last.workflow_spec.nodes, e) >= 1)
                          => TemplatesOf(tasks, e) = 1
              /\ Len(last.inner.result.nodes) = Len(last.workflow_spec.nodes)

C10_Witness ==
    /\ CompileEnded
    /\ last.inner.result.kind = "DynamicJobSpec"
    /\ last.inner.result.min_successes = 3
    /\ NodesCalling(last.workflow_spec.nodes, "inc") = 3
    /\ last.inner.result.tasks = <<(<<"template", "inc">>)>>

C10_WitnessOrder ==
    /\ CompileEnded
    /\ last.inner.result.kind = "DynamicJobSpec"
    /\ last.inner.result.tasks = <<(<<"template", "dbl">>), (<<"template", "inc">>)>>
    /\ NodesCalling(last.workflow_spec.nodes, "lp") = 1

FirstReference(entities) ==
    CHOOSE i \in DOMAIN entities :
        /\ entities[i].kind = "ReferenceTask"
        /\ \A j \in 1..(i - 1) : entities[j].kind # "ReferenceTask"

\* C11: a compile whose body called a reference task ends in a raised error
\* and returns no DynamicJobSpec; the templates gathered when it is raised
\* are those of the task entries that precede the reference task in the
\* registry, and no returned DynamicJobSpec lists a reference task.
C11_ReferenceTaskRaises ==
    /\ (CompileEnded /\ NodesCalling(last.workflow_spec.nodes, "ref") >= 1)
          => /\ last.inner.status = "raised"
             /\ last.inner.exc = "ValueError"
             /\ last.status = "raised"
             /\ last.result.kind # "DynamicJobSpec"
             /\ LET k == FirstReference(last.model_entities)
                    before == SelectSeq(SubSeq(last.model_entities, 1, k - 1), TaskKeyed)
                IN  last.tts = [i \in DOMAIN before |-> before[i].model.template]
    /\ (CompileEnded /\ last.inner.result.kind = "DynamicJobSpec")
          => /\ NodesCalling(last.workflow_spec.nodes, "ref") = 0
             /\ \A i \in DOMAIN last.inner.result.tasks :
                    last.inner.result.tasks[i] # SerializedModel("ref").template

C11_Witness ==
    /\ CompileEnded
    /\ last.inner.exc = "ValueError"
    /\ Len(last.workflow_spec.nodes) = 3
    /\ last.workflow_spec.nodes[1].entity = "inc"
    /\ last.workflow_spec.nodes[2].entity = "ref"
    /\ last.workflow_spec.nodes[3].entity = "dbl"
    /\ last.tts = <<(<<"template", "inc">>)>>

\* C12 (as claimed): while compile_into_workflow is open on a context that
\* already carried a compilation state, the prefix of the compilation state
\* it made current is strictly longer than the incoming prefix and begins
\* with it, so the inner compile and its outer compile never share a prefix.
C12_NestedPrefixExtends ==
    (/\ calls # <<>>
     /\ top_call.leaf = "compile_into_workflow"
     /\ entry_context.compilation_state.present)
       => LET incoming == entry_context.compilation_state.prefix
              new == current_context.compilation_state.prefix
          IN  /\ Len(new) > Len(incoming)
              /\ SubSeq(new, 1, Len(incoming)) = incoming
              /\ new # incoming

\* C13: the dynamic workflow of an entity is built at most once: whatever
\* local executions and compiles were made on it, in any order and whether
\* they failed or not, the entity has built no second workflow object, the
\* object it holds is the first one built, and every call that materializes,
\* on the local path or the compile path, runs and ends with that object.
C13_WorkflowBuiltOnce ==
    /\ self.wfBuilt <= 1
    /\ self.wf = self.wfBuilt
    /\ last.leaf \in {"wf_execute", "compile_into_workflow"} => last.task.wf = 1
    /\ (calls # <<>> /\ top_call.leaf \in {"wf_execute", "compile_into_workflow"})
          => self.wf = 1

C13_Witness ==
    /\ last.op = "compile_into_workflow"
    /\ last.task.wfBuiltBy = "wf_execute"
    /\ last.task.wf = 1
    /\ last.task.wfBuilt = 1
    /\ last.body = "raised"

\* C14: the context stack is used as a stack by every operation: while a
\* with block is open exactly one frame more than at the call is on the
\* stack, and when the operation has returned or raised (the body, the
\* serialization or the reference-task check) the stack is as deep as at
\* the call and the frame current at the call is current again.
C14_StackDiscipline ==
    /\ calls # <<>>
          => /\ Len(ctxStack) = top_call.depth + 1
             /\ current_context = ScopedFrame(self, top_call.leaf, entry_context)
    /\ (calls = <<>> /\ last.op \in {"execute", "compile_into_workflow"})
          => /\ Len(ctxStack) = last.depth
             /\ current_context = last.ctx

C14_Witness ==
    /\ calls = <<>>
    /\ last.op = "execute"
    /\ last.leaf = "compile_into_workflow"
    /\ last.inner.exc = "ValueError"
    /\ last.bodyFrame # last.ctx
    /\ Len(ctxStack) = 2
    /\ current_context = last.ctx

C14_WitnessEager ==
    /\ calls = <<>>
    /\ last.leaf = "eager_backend"
    /\ last.body = "raised"
    /\ last.bodyFrame # last.ctx
    /\ current_context = last.ctx

\* The tag a constructor call ends up passing to PythonFunctionTask.__init__.
TagPassed(a) ==
    IF a.cls = "EagerAsyncPythonFunctionTask" THEN "EAGER" ELSE a.execution_mode

\* C15: a constructor call with node_dependency_hints given and a tag other
\* than DYNAMIC raises and leaves no entity; the eager constructor, whose
\* tag is EAGER whatever execution_mode keyword it got, raises whenever
\* hints are given.
C15_HintsNeedDynamic ==
    /\ (/\ last.op = "init"
        /\ last.init.node_dependency_hints
        /\ TagPassed(last.init) # "DYNAMIC")
          => /\ last.status = "raised"
             /\ last.exc = "ValueError"
             /\ last.task = NoTask
             /\ self = NoTask
    /\ (/\ last.op = "init"
        /\ last.init.node_dependency_hints
        /\ last.init.cls = "EagerAsyncPythonFunctionTask")
          => last.status = "raised" /\ self = NoTask

C15_Witness ==
    /\ last.op = "init"
    /\ last.init.cls = "EagerAsyncPythonFunctionTask"
    /\ last.init.execution_mode = "DYNAMIC"
    /\ last.init.node_dependency_hints
    /\ ~last.init.task_function_none
    /\ ~last.init.isnested
    /\ last.status = "raised"
    /\ self = NoTask

\* C16 (as claimed): a constructed entity has dependency hints if and only
\* if its tag is DYNAMIC.
C16_HintsIffDynamic ==
    self # NoTask => (self.node_dependency_hints <=> self.execution_mode = "DYNAMIC")

\* C16 (amended): a constructed entity that has dependency hints is tagged
\* DYNAMIC; a DYNAMIC entity may have none.
C16_HintsImplyDynamic ==
    /\ self # NoTask => (self.node_dependency_hints => self.execution_mode = "DYNAMIC")
    /\ (last.op = "init" /\ last.status = "returned")
          => /\ self = last.task
             /\ self.node_dependency_hints = last.init.node_dependency_hints
             /\ self.node_dependency_hints => self.execution_mode = "DYNAMIC"

C16_Witness ==
    /\ last.op = "init"
    /\ last.status = "returned"
    /\ self.node_dependency_hints
    /\ self.execution_mode = "DYNAMIC"
    /\ self.cls = "AsyncPythonFunctionTask"

\* A callable that is nested and neither a test function nor a
\* functools-wrapped module-level function.
UnreachableCallable(a) ==
    /\ ~a.task_function_none
    /\ a.isnested
    /\ ~a.istestfunction
    /\ ~a.is_functools_wrapped_module_level

\* C17 (as claimed): constructing an entity from a nested callable that is
\* neither a test function nor functools-wrapped raises, whatever resolver
\* is supplied, so no constructed entity wraps such a callable.
C17_NestedCallableRaises ==
    (last.op = "init" /\ UnreachableCallable(last.init))
       => last.status = "raised" /\ self = NoTask

\* C17 (amended): constructing an entity from such a callable raises when
\* the entity's resolver is the default task resolver, so every entity
\* constructed with the default resolver wraps a callable that is at module
\* scope, a test function or functools-wrapped.
C17_NestedCallableRaisesByDefault ==
    /\ (last.op = "init" /\ UnreachableCallable(last.init) /\ last.init.default_resolver)
          => /\ last.status = "raised"
             /\ last.exc = "ValueError"
             /\ self = NoTask
    /\ (last.op = "init" /\ last.status = "returned" /\ last.init.default_resolver)
          => ~UnreachableCallable(last.init)

C17_Witness ==
    /\ last.op = "init"
    /\ UnreachableCallable(last.init)
    /\ last.init.default_resolver
    /\ ~last.init.node_dependency_hints
    /\ last.status = "raised"
    /\ self = NoTask

\* An execute() call on an EagerAsyncPythonFunctionTask, made in a context
\* whose execution state does not report local execution.
EagerNonLocalCall(l) ==
    /\ l.op = "execute"
    /\ l.task.cls = "EagerAsyncPythonFunctionTask"
    /\ HasES(l.ctx)
    /\ ~is_local_execution(l.ctx.execution_state)

\* C18: an eager task dispatched in a non-local context without a remote
\* client ends in a raised error with nothing else done: the wrapped
\* callable was not called, no frame was pushed (the stack and the current
\* frame, with no worker queue, are those of the call), and no eager
\* backend block is ever open on a context without a client.
C18_NoClientRaisesFirst ==
    /\ (EagerNonLocalCall(last) /\ ~last.ctx.flyte_client)
          => /\ last.status = "raised"
             /\ last.exc = "AssertionError"
             /\ last.direct = 0
             /\ last.bodyRuns = 0
             /\ calls = <<>>
             /\ Len(ctxStack) = last.depth
             /\ current_context = last.ctx
             /\ current_context.worker_queue = 0
    /\ (calls # <<>> /\ top_call.leaf = "eager_backend")
          => entry_context.flyte_client

C18_Witness ==
    /\ EagerNonLocalCall(last)
    /\ last.ctx.execution_state.mode = "TASK_EXECUTION"
    /\ ~last.ctx.flyte_client
    /\ last.exc = "AssertionError"
    /\ last.path = <<"eager_async_execute", "run_with_backend">>

\* The frame a non-local eager body runs in, given the frame of the call.
EagerBackendScope(incoming, scope) ==
    /\ scope.worker_queue # 0
    /\ scope.execution_state.mode = "EAGER_EXECUTION"
    /\ scope.flyte_client = incoming.flyte_client
    /\ scope.compilation_state = incoming.compilation_state
    /\ incoming.worker_queue = 0
          => scope.worker_queue = NewWorkerQueue /\ incoming.flyte_client
    /\ incoming.worker_queue # 0 => scope.worker_queue = incoming.worker_queue

\* C19: in a non-local eager run the wrapped callable runs in a frame with
\* a worker queue and the mode EAGER_EXECUTION; the queue is a new one, made
\* with the remote client at hand, only when the frame of the call had
\* none, and is the queue of the frame of the call when that had one.
C19_WorkerQueueInScope ==
    /\ (calls # <<>> /\ top_call.leaf = "eager_backend")
          => EagerBackendScope(entry_context, current_context)
    /\ (EagerNonLocalCall(last) /\ last.bodyRuns = 1)
          => /\ last.leaf = "eager_backend"
             /\ EagerBackendScope(last.ctx, last.bodyFrame)

C19_Witness ==
    /\ EagerNonLocalCall(last)
    /\ last.bodyRuns = 1
    /\ last.ctx.execution_state.mode = "EAGER_EXECUTION"
    /\ last.ctx.worker_queue = 1
    /\ last.bodyFrame.worker_queue = 1

C19_WitnessNew ==
    /\ EagerNonLocalCall(last)
    /\ last.bodyRuns = 1
    /\ last.ctx.worker_queue = 0
    /\ last.bodyFrame.worker_queue = NewWorkerQueue

\* An execute() call on an EagerAsyncPythonFunctionTask, made in a context
\* whose execution state reports local execution.
EagerLocalCall(l) ==
    /\ l.op = "execute"
    /\ l.task.cls = "EagerAsyncPythonFunctionTask"
    /\ HasES(l.ctx)
    /\ is_local_execution(l.ctx.execution_state)

\* The frame of the call with the mode EAGER_LOCAL_EXECUTION and nothing
\* else changed.
EagerLocalScope(incoming) ==
    [incoming EXCEPT !.execution_state.mode = "EAGER_LOCAL_EXECUTION"]

\* C20: an eager task executed in a local context calls the wrapped
\* callable once, with the kwargs it got, in a frame that is the frame of
\* the call with the mode set to EAGER_LOCAL_EXECUTION (the other fields of
\* the execution state, the client and the worker queue as they were), and
\* hands back what the callable returned; it does so with or without a
\* remote client and makes no worker queue.
C20_EagerLocalRunsCallable ==
    /\ (calls # <<>> /\ top_call.leaf = "eager_local")
          => current_context = EagerLocalScope(entry_context)
    /\ EagerLocalCall(last)
          => /\ last.leaf = "eager_local"
             /\ last.direct = 1
             /\ last.bodyRuns = 1
             /\ last.fnKwargs = last.kwargs
             /\ last.bodyFrame = EagerLocalScope(last.ctx)
             /\ last.bodyFrame.worker_queue = last.ctx.worker_queue
             /\ last.body = "returned"
                   => last.status = "returned" /\ last.result = NativeResult(last.fnRet)
             /\ last.body = "raised" => last.status = "raised"

C20_Witness ==
    /\ EagerLocalCall(last)
    /\ last.ctx.execution_state.mode = "LOCAL_WORKFLOW_EXECUTION"
    /\ ~last.ctx.flyte_client
    /\ last.ctx.worker_queue = 0
    /\ last.bodyFrame.execution_state = [mode |-> "EAGER_LOCAL_EXECUTION", working_dir |-> "wd"]
    /\ last.bodyFrame.worker_queue = 0
    /\ last.status = "returned"
    /\ last.result = NativeResult(Scalar("a"))

\* C21 (as claimed): an eager task executed in a non-local context with a
\* remote client hands back to the caller of execute() what the wrapped
\* callable returned inside run_with_backend.
C21_EagerBackendReturnsResult ==
    (/\ EagerNonLocalCall(last)
     /\ last.ctx.flyte_client
     /\ last.body = "returned")
       => /\ last.status = "returned"
          /\ last.result = NativeResult(last.fnRet)

\* A finished call of top_level_sync, direct or through the wrapper.
SyncEnded == syncLast.op = "top_level_sync"

\* C22: top_level_sync never runs a coroutine while a loop is already
\* running in the calling thread.  Called under a running loop it raises
\* AssertionError, no coroutine is created and the running loop is left as
\* it was; called with no loop it runs the coroutine on a loop made for this
\* call, hands back the coroutine's result or its exception, and leaves the
\* thread without a running loop.
C22_TopLevelSyncNeedsNoLoop ==
    /\ \A i \in 1..Len(syncCalls) :
          /\ syncCalls[i].loopBefore = NoLoop
          /\ thread.running = syncCalls[i].loop
          /\ syncCalls[i].loop = RunLoop(thread.created)
    /\ Len(syncCalls) <= 1
    /\ (SyncEnded /\ syncLast.loopBefore # NoLoop)
          => /\ syncLast.status = "raised"
             /\ syncLast.exc = "AssertionError"
             /\ ~syncLast.coroCreated
             /\ syncLast.ranOn = NoLoop
             /\ syncLast.loopAfter = syncLast.loopBefore
    /\ (SyncEnded /\ syncLast.loopBefore = NoLoop)
          => /\ syncLast.coroCreated
             /\ syncLast.ranOn = RunLoop(thread.created)
             /\ syncLast.status = syncLast.body
             /\ syncLast.body = "returned" => syncLast.result = syncLast.bodyRet
             /\ syncLast.body = "raised" => syncLast.exc = syncLast.bodyRet
             /\ syncLast.loopAfter = NoLoop
             /\ thread.running = NoLoop

\* A call under the caller's running loop was refused.
C22_Witness ==
    /\ SyncEnded
    /\ syncLast.loopBefore = AmbientLoop
    /\ syncLast.exc = "AssertionError"

\* A second call in the same thread ran its coroutine to the end on the
\* second loop.
C22_WitnessAgain ==
    /\ SyncEnded
    /\ syncLast.loopBefore = NoLoop
    /\ syncLast.status = "returned"
    /\ syncLast.ranOn = RunLoop(2)

\* A call made by the body of a running coroutine was refused.
C22_WitnessNested ==
    /\ SyncEnded
    /\ syncLast.nested
    /\ syncLast.exc = "AssertionError"
    /\ syncCalls # <<>>

\* C24: the unimplemented paths raise NotImplementedError and never call the
\* wrapped callable: eager local_execute when the task's metadata asks for
\* caching and the local cache is enabled, and the async task's
\* async_execute on an entity tagged DYNAMIC.
C24_UnimplementedPathsRaise ==
    /\ (/\ last.op = "local_execute"
        /\ last.task.metadata_cache
        /\ last.cache_enabled)
          => /\ last.status = "raised"
             /\ last.exc = "NotImplementedError"
             /\ last.result = EmptyResult
             /\ last.bodyRuns = 0
             /\ last.body = ""
    /\ (/\ last.op = "execute"
        /\ last.task.cls = "AsyncPythonFunctionTask"
        /\ last.task.execution_mode = "DYNAMIC")
          => /\ last.status = "raised"
             /\ last.exc = "NotImplementedError"
             /\ last.result = EmptyResult
             /\ last.bodyRuns = 0
             /\ last.body = ""

\* local_execute was refused for caching, in a local context where the call
\* would otherwise have run the callable.
C24_Witness ==
    /\ last.op = "local_execute"
    /\ last.task.metadata_cache
    /\ last.cache_enabled
    /\ last.exc = "NotImplementedError"
    /\ HasES(last.ctx)
    /\ is_local_execution(last.ctx.execution_state)

\* execute() of a DYNAMIC async task was refused.
C24_WitnessAsyncDynamic ==
    /\ last.op = "execute"
    /\ last.task.cls = "AsyncPythonFunctionTask"
    /\ last.task.execution_mode = "DYNAMIC"
    /\ last.exc = "NotImplementedError"

\* With caching asked for but the local cache disabled, local_execute goes
\* on to execute() and the callable runs.
C24_WitnessCacheDisabled ==
    /\ last.op = "local_execute"
    /\ last.task.metadata_cache
    /\ ~last.cache_enabled
    /\ last.status = "returned"
    /\ last.bodyRuns = 1

\* The exits of the dispatch that are errors raised by its own checks.
DispatchErrors == {"ValueError", "NotImplementedError", "AttributeError", "AssertionError"}

\* C25: the dispatcher never retries or recovers.  One call of execute()
\* runs the task body at most once, and an error of the body, of the compiler
\* or of a dispatch check is what the caller of that call gets.
C25_NoRetryNoRecovery ==
    /\ Len(calls) <= 1
    /\ last.op = "execute"
          => /\ last.bodyRuns <= 1
             /\ last.body = "raised"
                   => /\ last.status = "raised"
                      /\ last.exc = "UserError"
                      /\ last.bodyRuns = 1
             /\ last.inner.status = "raised"
                   => /\ last.status = "raised"
                      /\ last.exc = last.inner.exc
                      /\ last.result = EmptyResult
             /\ last.leaf \in DispatchErrors
                   => /\ last.status = "raised"
                      /\ last.exc = last.leaf
                      /\ last.bodyRuns = 0

\* The body run by run_with_backend raised and execute() raised its error.
C25_Witness ==
    /\ last.op = "execute"
    /\ last.leaf = "eager_backend"
    /\ last.body = "raised"
    /\ last.status = "raised"

\* The compiler raised after the body was traced without error.
C25_WitnessCompiler ==
    /\ last.op = "execute"
    /\ last.leaf = "compile_into_workflow"
    /\ last.body = "returned"
    /\ last.status = "raised"

\* A dispatch check raised.
C25_WitnessDispatch ==
    /\ last.op = "execute"
    /\ last.leaf \in DispatchErrors
    /\ last.status = "raised"

\* Each of the branches that run a body ended a call on a body error.
C25_WitnessBranch(leaf) ==
    /\ last.op = "execute"
    /\ last.leaf = leaf
    /\ last.body = "raised"

\* The local branch of dynamic_execute ended after the workflow body
\* returned a value that is neither None nor a VoidPromise.
LocalBranchValue ==
    /\ last.leaf = "wf_execute"
    /\ last.body = "returned"
    /\ last.fnRet.kind \notin {"None", "VoidPromise"}

C26_WitnessWholeTuple ==
    /\ LocalBranchValue
    /\ last.task.nOut = 1
    /\ ~last.task.output_tuple_name
    /\ last.fnRet = Tuple(<<"a", "b">>)
    /\ last.result.literals = ("o0" :> to_literal(Tuple(<<"a", "b">>)))

\* C27 (as claimed): in the local branch with more than one declared
\* output, every result the branch accepts is returned as a LiteralMap whose
\* keys are all the declared output names and no others, the i-th name bound
\* to the i-th element of the result.
C27_MultiOutputFullKeySet ==
    (LocalBranchValue /\ last.task.nOut > 1 /\ last.status = "returned")
       => LET names == expected_output_names(last.task)
          IN  /\ last.result.kind = "LiteralMap"
              /\ DOMAIN last.result.literals = {names[i] : i \in 1..Len(names)}
              /\ \A i \in 1..Len(names) :
                    /\ i <= Len(last.fnRet.items)
                    /\ last.result.literals[names[i]] = to_literal(Scalar(last.fnRet.items[i]))

\* A DYNAMIC-tagged task's body is being traced or executed.
DynamicBodyOpen ==
    /\ calls # <<>>
    /\ top_call.leaf \in {"wf_execute", "compile_into_workflow"}
    /\ self.execution_mode = "DYNAMIC"

\* ... and the call that did so has ended.
DynamicBodyEnded ==
    /\ calls = <<>>
    /\ last.leaf \in {"wf_execute", "compile_into_workflow"}
    /\ last.task.execution_mode = "DYNAMIC"

\* C28: the body of a DYNAMIC-tagged task is traced (compile_into_workflow)
\* and executed (local branch of dynamic_execute) in a frame whose mode is
\* DYNAMIC_TASK_EXECUTION; the frame it is traced in has a compilation
\* state; the caller's frame stays under it on the stack and is current
\* again, with the execution state and mode it had, once the call has ended.
C28_DynamicBodyFrame ==
    /\ DynamicBodyOpen
          => /\ current_context.execution_state.mode = "DYNAMIC_TASK_EXECUTION"
             /\ top_call.leaf = "compile_into_workflow"
                   => current_context.compilation_state.present
             /\ Len(ctxStack) = top_call.depth + 1
    /\ DynamicBodyEnded
          => /\ last.bodyFrame.execution_state.mode = "DYNAMIC_TASK_EXECUTION"
             /\ last.leaf = "compile_into_workflow"
                   => last.bodyFrame.compilation_state.present
             /\ current_context.execution_state = last.ctx.execution_state

\* The body is being traced under a caller whose mode is TASK_EXECUTION and
\* who has no compilation state.
C28_Witness ==
    /\ DynamicBodyOpen
    /\ top_call.leaf = "compile_into_workflow"
    /\ entry_context.execution_state.mode = "TASK_EXECUTION"
    /\ ~entry_context.compilation_state.present
    /\ current_context.execution_state.mode = "DYNAMIC_TASK_EXECUTION"

\* The local branch ended, and the caller's local mode is current again.
C28_WitnessLocal ==
    /\ DynamicBodyEnded
    /\ last.leaf = "wf_execute"
    /\ last.ctx.execution_state.mode = "LOCAL_WORKFLOW_EXECUTION"
    /\ last.bodyFrame.execution_state.mode = "DYNAMIC_TASK_EXECUTION"
    /\ current_context.execution_state.mode = "LOCAL_WORKFLOW_EXECUTION"

\* C29: the nodes of an emitted DynamicJobSpec are the nodes recorded while
\* the body was traced, one per call and in the order of the calls:
\* compile_into_workflow hands on the compiled workflow's node list as it is.
C29_NodesInCallOrder ==
    (last.leaf = "compile_into_workflow" /\ last.result.kind = "DynamicJobSpec")
       => /\ last.result.nodes = last.workflow_spec.nodes
          /\ Len(last.result.nodes) = Len(last.trace)
          /\ \A i \in 1..Len(last.trace) : last.result.nodes[i].entity = last.trace[i]
          /\ \A i, j \in 1..Len(last.result.nodes) :
                last.result.nodes[i].id = last.result.nodes[j].id => i = j

\* A job spec for a body that called inc, dbl and inc again.
C29_Witness ==
    /\ last.leaf = "compile_into_workflow"
    /\ last.result.kind = "DynamicJobSpec"
    /\ last.trace = <<"inc", "dbl", "inc">>
    /\ Len(last.result.nodes) = 3

\* The local branch of dynamic_execute ended after the body of a task that
\* declares no outputs returned.
ZeroOutputLocalEnded ==
    /\ last.op = "execute"
    /\ last.leaf = "wf_execute"
    /\ last.body = "returned"
    /\ last.task.nOut = 0

\* C30: in the local branch, a task declaring no outputs whose body yields a
\* value (neither None nor a VoidPromise) ends in FlyteValueException and
\* hands back no LiteralMap; when such a task's call succeeds, what it hands
\* back is a VoidPromise.
C30_ZeroOutputsValueRaises ==
    ZeroOutputLocalEnded
       => /\ last.fnRet.kind \notin {"None", "VoidPromise"}
                => /\ last.status = "raised"
                   /\ last.exc = "FlyteValueException"
                   /\ last.result = EmptyResult
                   /\ ~last.translated
          /\ last.status = "returned"
                => /\ last.result = VoidPromise(TaskName)
                   /\ last.fnRet.kind \in {"None", "VoidPromise"}

\* A body returned the empty tuple under an interface without outputs.
C30_Witness ==
    /\ ZeroOutputLocalEnded
    /\ last.fnRet = Tuple(<<>>)
    /\ last.exc = "FlyteValueException"

C30_WitnessScalar ==
    /\ ZeroOutputLocalEnded
    /\ last.fnRet = Scalar("a")
    /\ last.exc = "FlyteValueException"

C30_WitnessVoid ==
    /\ ZeroOutputLocalEnded
    /\ last.fnRet = NoneValue
    /\ last.result = VoidPromise(TaskName)

====
